---- MODULE Spec2Model ----
(***************************************************************************)
(* Model of scripts/build_list.py: the line normalizer (parse_line), the   *)
(* loader of new entries (load_new_data), the target parser (parse_target),*)
(* the merge done by main, and the target writer (write_data).             *)
(*                                                                         *)
(* A Python str is modelled as a sequence of one-character strings, so     *)
(* that strip, split, replace, startswith and endswith are computed        *)
(* character by character. A text file is the sequence of its lines, each  *)
(* line stored without its terminating newline; readlines() gives each     *)
(* line back with "\n" appended.                                           *)
(***************************************************************************)
EXTENDS Integers, Sequences, FiniteSets, TLC

VARIABLES
    target,                 \* content of the target file (args.target)
    source,                 \* the raw data file (args.filename)
    subs,                   \* the substitution resource subs.json
    runs,                   \* completed executions of main
    rewrites,               \* completed parse-then-write passes without merge
    prevTarget,             \* content of the target file before the last operation
    before,                 \* Document parse_target returned in the last run
    data,                   \* Document handed to write_data in the last run
    delta,                  \* updated_count - initial_record_count of the last run
    writes,                 \* calls of write_data so far
    idx,                    \* parse_target loop: number of lines consumed
    result,                 \* parse_target loop: result
    current_section_name,   \* parse_target loop: <<>> is None, <<n>> is the str n
    entries                 \* load_new_data loop: data

vars == <<target, source, subs, runs, rewrites, prevTarget, before, data, delta,
          writes, idx, result, current_section_name, entries>>

(***************************************************************************)
(* Bounds of the model.                                                    *)
(***************************************************************************)
MaxTargetLines == 3
MaxRuns == 2
MaxSourceLines == 1
MaxRawLines == 1

(***************************************************************************)
(* Characters and str primitives.                                          *)
(***************************************************************************)
\* str.strip() with no argument removes these (the ones in the model's alphabet)
Whitespace == {" ", "\n", "\t", "\r"}

\* code points, the order sorted() compares str by
Code ==
    ("\t" :> 9) @@ ("\n" :> 10) @@ ("\r" :> 13) @@ (" " :> 32) @@ ("#" :> 35) @@
    ("." :> 46) @@ ("A" :> 65) @@ ("B" :> 66) @@ ("[" :> 91) @@ ("]" :> 93) @@
    ("a" :> 97) @@ ("b" :> 98) @@ ("c" :> 99) @@ ("d" :> 100) @@ ("e" :> 101) @@
    ("i" :> 105) @@ ("l" :> 108) @@ ("m" :> 109) @@ ("n" :> 110) @@ ("o" :> 111) @@
    ("p" :> 112) @@ ("r" :> 114) @@ ("s" :> 115) @@ ("t" :> 116) @@ ("u" :> 117) @@
    ("x" :> 120)

startswith(s, p) == Len(s) >= Len(p) /\ SubSeq(s, 1, Len(p)) = p

endswith(s, p) == Len(s) >= Len(p) /\ SubSeq(s, Len(s) - Len(p) + 1, Len(s)) = p

RECURSIVE lstrip(_)
lstrip(s) == IF s # <<>> /\ Head(s) \in Whitespace THEN lstrip(Tail(s)) ELSE s

RECURSIVE rstrip(_)
rstrip(s) ==
    IF s # <<>> /\ s[Len(s)] \in Whitespace THEN rstrip(SubSeq(s, 1, Len(s) - 1)) ELSE s

strip(s) == rstrip(lstrip(s))

\* `c in s` for a one-character c
contains(s, c) == \E i \in DOMAIN s : s[i] = c

\* s.split(c) for a one-character separator: every separator cuts, empty tokens kept
RECURSIVE split(_, _)
split(s, c) ==
    IF ~contains(s, c) THEN <<s>>
    ELSE LET i == CHOOSE j \in DOMAIN s : s[j] = c /\ \A k \in 1..(j - 1) : s[k] # c
         IN  <<SubSeq(s, 1, i - 1)>> \o split(SubSeq(s, i + 1, Len(s)), c)

\* s.replace(old, new): non-overlapping occurrences, left to right; an empty old
\* matches before every character and at the end
RECURSIVE replace(_, _, _)
replace(s, old, new) ==
    IF old = <<>>
    THEN IF s = <<>> THEN new ELSE new \o <<Head(s)>> \o replace(Tail(s), old, new)
    ELSE IF Len(s) < Len(old) THEN s
    ELSE IF startswith(s, old)
         THEN new \o replace(SubSeq(s, Len(old) + 1, Len(s)), old, new)
         ELSE <<Head(s)>> \o replace(Tail(s), old, new)

\* a < b for str: lexicographic by code point
RECURSIVE StrLess(_, _)
StrLess(a, b) ==
    IF b = <<>> THEN FALSE
    ELSE IF a = <<>> THEN TRUE
    ELSE IF Head(a) = Head(b) THEN StrLess(Tail(a), Tail(b))
    ELSE Code[Head(a)] < Code[Head(b)]

\* set(list)
set(l) == {l[i] : i \in DOMAIN l}

\* a mutation of sorted: descending order
RECURSIVE sorted_desc(_)
sorted_desc(S) ==
    IF S = {} THEN <<>>
    ELSE LET m == CHOOSE x \in S : \A y \in S : x = y \/ StrLess(y, x)
         IN  <<m>> \o sorted_desc(S \ {m})

\* sorted(S) of a set of str: ascending list
RECURSIVE sorted(_)
sorted(S) ==
    IF S = {} THEN <<>>
    ELSE LET m == CHOOSE x \in S : \A y \in S : x = y \/ StrLess(x, y)
         IN  <<m>> \o sorted(S \ {m})

\* f.readlines(): every line with its newline
readlines(file) == [i \in DOMAIN file |-> file[i] \o <<"\n">>]

(***************************************************************************)
(* Substitution loader and line normalizer.                                *)
(***************************************************************************)
\* The substitution resource is [ok |-> whether open() and json.loads() succeed,
\* map |-> the items() of the loaded dict, in iteration order, as <<orig, sub>>].
load_subs_raises(sb) == ~sb.ok

load_subs(sb) == sb.map

\* the loop `for orig, sub in ...items(): line = line.replace(orig, sub)`
RECURSIVE substitute(_, _)
substitute(line, items) ==
    IF items = <<>> THEN line
    ELSE substitute(replace(line, items[1][1], items[1][2]), Tail(items))

\* a mutation of parse_line: strips before it cuts at the first space
parse_line_strip_first(line, sb) ==
    LET l1 == strip(line)
        l2 == IF contains(l1, " ") THEN split(l1, " ")[1] ELSE l1
    IN  substitute(l2, load_subs(sb))

\* parse_line, when load_subs does not raise
parse_line(line, sb) ==
    LET l1 == IF contains(line, " ") THEN split(line, " ")[1] ELSE line
        l2 == strip(l1)
    IN  substitute(l2, load_subs(sb))

\* parse_line raises exactly when load_subs does
parse_line_raises(line, sb) == load_subs_raises(sb)

\* The raw data file is [readable |-> whether open() and readlines() succeed,
\* lines |-> its lines]. Any exception in the with block, the one parse_line
\* lets through included, ends in `return []`.
load_new_data(src, sb) ==
    IF ~src.readable THEN <<>>
    ELSE LET lines == readlines(src.lines)
         IN  IF \E i \in DOMAIN lines : parse_line_raises(lines[i], sb) THEN <<>>
             ELSE [i \in DOMAIN lines |-> parse_line(lines[i], sb)]

(***************************************************************************)
(* Documents: the dict parse_target builds, in insertion order, as a       *)
(* sequence of [name, items, comments] with distinct names.                *)
(***************************************************************************)
HasKey(d, k) == \E i \in DOMAIN d : d[i].name = k

Get(d, k) == d[CHOOSE i \in DOMAIN d : d[i].name = k]

\* d[k] = {'items': it, 'comments': co}: a present key keeps its position
Put(d, k, it, co) ==
    LET v == [name |-> k, items |-> it, comments |-> co]
    IN  IF HasKey(d, k) THEN [i \in DOMAIN d |-> IF d[i].name = k THEN v ELSE d[i]]
        ELSE Append(d, v)

Keys(d) == {d[i].name : i \in DOMAIN d}

(***************************************************************************)
(* Target parser.                                                          *)
(***************************************************************************)
HASHES == <<"#", "#", "#">>

DOMAINS_START == <<"d", "o", "m", "a", "i", "n", "s", " ", "s", "t", "a", "r", "t">>

DOMAINS_END == <<"d", "o", "m", "a", "i", "n", "s", " ", "e", "n", "d">>

IsStart(line) == startswith(line, HASHES) /\ endswith(line, DOMAINS_START)

IsEnd(line) == startswith(line, HASHES) /\ endswith(line, DOMAINS_END)

\* truth value of current_section_name: None and '' are both false
Truthy(cur) == cur # <<>> /\ cur[1] # <<>>

\* one iteration of `for line in lines` on the loop state [result, cur]
ParseLine(st, raw) ==
    LET line == strip(raw)
        cur  == st.cur
    IN  IF IsStart(line)
        THEN LET tokens == split(line, " ")
             IN  IF Len(tokens) < 2 THEN st     \* IndexError: log and continue
                 ELSE [result |-> Put(st.result, tokens[2], <<>>, <<>>),
                       cur    |-> <<tokens[2]>>]
        ELSE IF IsEnd(line) THEN [result |-> st.result, cur |-> <<>>]
        ELSE IF startswith(line, <<"#">>) /\ Truthy(cur)
        THEN LET s == Get(st.result, cur[1])
             IN  [result |-> Put(st.result, cur[1], s.items, Append(s.comments, line)),
                  cur    |-> cur]
        ELSE IF line # <<>> /\ Truthy(cur)
        THEN LET s == Get(st.result, cur[1])
             IN  [result |-> Put(st.result, cur[1], Append(s.items, strip(line)), s.comments),
                  cur    |-> cur]
        ELSE st

RECURSIVE ParseLines(_, _)
ParseLines(st, lines) ==
    IF lines = <<>> THEN st ELSE ParseLines(ParseLine(st, Head(lines)), Tail(lines))

parse_target(file) == ParseLines([result |-> <<>>, cur |-> <<>>], readlines(file)).result

(***************************************************************************)
(* Target writer.                                                          *)
(***************************************************************************)
\* what f.write(x), x given a final "\n" if it has none, adds to the file
WriteLine(x) == IF endswith(x, <<"\n">>) THEN SubSeq(x, 1, Len(x) - 1) ELSE x

StartLine(name) == HASHES \o <<" ">> \o name \o <<" ">> \o DOMAINS_START

EndLine(name) == HASHES \o <<" ">> \o name \o <<" ">> \o DOMAINS_END

\* a mutation of WriteSection: the comments are not written
WriteSection_drop_comments(s) ==
    <<<<>>, StartLine(s.name)>> \o <<<<>>>>
    \o [i \in DOMAIN s.items |-> WriteLine(s.items[i])]
    \o <<<<>>, EndLine(s.name)>>

\* the body of `for section, section_data in data.items()`
WriteSection(s) ==
    <<<<>>, StartLine(s.name)>>
    \o [i \in DOMAIN s.comments |-> WriteLine(s.comments[i])]
    \o <<<<>>>>
    \o [i \in DOMAIN s.items |-> WriteLine(s.items[i])]
    \o <<<<>>, EndLine(s.name)>>

RECURSIVE write_data(_)
write_data(d) == IF d = <<>> THEN <<>> ELSE WriteSection(Head(d)) \o write_data(Tail(d))

(***************************************************************************)
(* The merge of main.                                                      *)
(***************************************************************************)
\* args.section
section == <<"A">>

\* a mutation of merge: the new entries replace the section's items
merge_replace(items, new_entries) == sorted(new_entries)

\* sorted(set(items) | new_entries)
merge(items, new_entries) == sorted(set(items) \cup new_entries)

\* updated_count - initial_record_count
count_delta(initial_record_count, all_entries) == Len(all_entries) - initial_record_count

\* data after `if args.section in data.keys(): ... else: ...`
with_section(parsed) ==
    IF HasKey(parsed, section) THEN parsed ELSE Put(parsed, section, <<>>, <<>>)

initial_count(parsed) ==
    IF HasKey(parsed, section) THEN Len(Get(parsed, section).items) ELSE 0

\* data after `data[args.section]['items'] = all_entries`
merged(parsed, new_entries) ==
    LET d == with_section(parsed)
        s == Get(d, section)
    IN  Put(d, section, merge(s.items, new_entries), s.comments)

(***************************************************************************)
(* Inputs.                                                                 *)
(***************************************************************************)
SeqsUpTo(S, n) == UNION {[1..k -> S] : k \in 0..n}

\* lines of a hand-edited target file
TargetLines ==
    {StartLine(<<"A">>), StartLine(<<"B">>), <<"#", "d">>, <<"#", "c">>, <<"a">>, <<"b">>}

Targets == SeqsUpTo(TargetLines, MaxTargetLines)

\* raw data files: unreadable, or some lines
SourceLines == {<<"a", " ", "x">>, <<"#", "c">>, <<>>}

Sources ==
    {[readable |-> FALSE, lines |-> <<>>]}
    \cup {[readable |-> TRUE, lines |-> l] : l \in SeqsUpTo(SourceLines, MaxSourceLines)}

\* subs.json: missing or unparseable, or a map
Subs ==
    {[ok |-> FALSE, map |-> <<>>],
     [ok |-> TRUE, map |-> << <<(<<"c">>), (<<"b">>)>> >>]}

(***************************************************************************)
(* Runs of the program.                                                    *)
(***************************************************************************)
Init ==
    /\ target \in Targets
    /\ source \in Sources
    /\ subs \in Subs
    /\ runs = 0
    /\ rewrites = 0
    /\ prevTarget = target
    /\ before = <<>>
    /\ data = <<>>
    /\ delta = 0
    /\ writes = 0
    /\ idx = 0
    /\ result = <<>>
    /\ current_section_name = <<>>
    /\ entries = <<>>

\* one execution of main with --run, --section, --filename and --target given
main ==
    /\ runs < MaxRuns
    /\ rewrites = 0
    /\ LET parsed      == parse_target(target)
           new_entries == set(load_new_data(source, subs))
           d           == merged(parsed, new_entries)
       IN  /\ before' = parsed
           /\ data' = d
           /\ delta' = count_delta(initial_count(parsed), Get(d, section).items)
           /\ target' = write_data(d)
    /\ prevTarget' = target
    /\ runs' = runs + 1
    /\ writes' = writes + 1
    /\ UNCHANGED <<source, subs, rewrites, idx, result, current_section_name, entries>>

\* write_data(parse_target(F), F) on a target a run has written, no merge between
Rewrite ==
    /\ runs >= 1
    /\ rewrites = 0
    /\ target' = write_data(parse_target(target))
    /\ prevTarget' = target
    /\ rewrites' = 1
    /\ writes' = writes + 1
    /\ UNCHANGED <<source, subs, runs, before, data, delta, idx, result,
                   current_section_name, entries>>

Next == main \/ Rewrite

Spec == Init /\ [][Next]_vars

(***************************************************************************)
(* parse_target, one line at a time.                                       *)
(***************************************************************************)
\* lines of a target file, the malformed and the blank ones included
ScanLines ==
    TargetLines
    \cup {EndLine(<<"A">>),
          HASHES \o <<" ", " ">> \o <<"A">> \o <<" ">> \o DOMAINS_START,
          <<" ", "#", "e", "\t">>,
          <<>>}

InitParse ==
    /\ target \in SeqsUpTo(ScanLines, MaxTargetLines)
    /\ source = [readable |-> FALSE, lines |-> <<>>]
    /\ subs = [ok |-> TRUE, map |-> <<>>]
    /\ runs = 0
    /\ rewrites = 0
    /\ prevTarget = target
    /\ before = <<>>
    /\ data = <<>>
    /\ delta = 0
    /\ writes = 0
    /\ idx = 0
    /\ result = <<>>
    /\ current_section_name = <<>>
    /\ entries = <<>>

\* one iteration of `for line in lines` of parse_target
ScanLine ==
    /\ idx < Len(target)
    /\ LET st == ParseLine([result |-> result, cur |-> current_section_name],
                           readlines(target)[idx + 1])
       IN  /\ result' = st.result
           /\ current_section_name' = st.cur
    /\ idx' = idx + 1
    /\ UNCHANGED <<target, source, subs, runs, rewrites, prevTarget, before, data,
                   delta, writes, entries>>

SpecParse == InitParse /\ [][ScanLine]_vars

(***************************************************************************)
(* load_new_data, one line at a time.                                      *)
(***************************************************************************)
RawLines ==
    {<<"e", "x", "a", "m", "p", "l", "e", ".", "c", "o", "m", " ", " ", " ",
       "#", " ", "s", "p", "a", "m", " ", "s", "o", "u", "r", "c", "e">>,
     <<"a">>, <<"a", " ", "b">>, <<" ", "a">>, <<>>,
     <<"\t", "a", "\t", "b", " ", "c">>, <<"a", "[", ".", "]", "b">>,
     <<"a", "a", "a">>, <<"b", "a", "\r">>, <<"#", "c">>}

SubsMaps ==
    {<<>>,
     << <<(<<"[", ".", "]">>), (<<".">>)>> >>,
     << <<(<<"a">>), (<<"b">>)>>, <<(<<"b">>), (<<"c">>)>> >>,
     << <<(<<"b">>), (<<"c">>)>>, <<(<<"a">>), (<<"b">>)>> >>,
     << <<(<<"a", "a">>), (<<"b">>)>>, <<(<<".">>), (<<>>)>> >>,
     << <<(<<>>), (<<".">>)>> >>}

InitNorm ==
    /\ target = <<>>
    /\ source \in {[readable |-> TRUE, lines |-> l] :
                       l \in SeqsUpTo(RawLines, MaxRawLines) \ {<<>>}}
    /\ subs \in {[ok |-> TRUE, map |-> m] : m \in SubsMaps}
    /\ runs = 0
    /\ rewrites = 0
    /\ prevTarget = target
    /\ before = <<>>
    /\ data = <<>>
    /\ delta = 0
    /\ writes = 0
    /\ idx = 0
    /\ result = <<>>
    /\ current_section_name = <<>>
    /\ entries = <<>>

\* one iteration of `for line in lines: data.append(parse_line(line))`
AppendEntry ==
    /\ source.readable
    /\ Len(entries) < Len(source.lines)
    /\ LET line == readlines(source.lines)[Len(entries) + 1]
       IN  /\ ~parse_line_raises(line, subs)
           /\ entries' = Append(entries, parse_line(line, subs))
    /\ UNCHANGED <<target, source, subs, runs, rewrites, prevTarget, before, data,
                   delta, writes, idx, result, current_section_name>>

SpecNorm == InitNorm /\ [][AppendEntry]_vars

(***************************************************************************)
(* Properties.                                                             *)
(***************************************************************************)
StrictlyAscending(l) == \A i \in 1..(Len(l) - 1) : StrLess(l[i], l[i + 1])

\* items and comments a Document holds under a name; none when the name is absent
ItemsOf(d, k) == IF HasKey(d, k) THEN Get(d, k).items ELSE <<>>

CommentsOf(d, k) == IF HasKey(d, k) THEN Get(d, k).comments ELSE <<>>

\* the set of new entries of the last run
NewEntries == set(load_new_data(source, subs))

\* the last operation was a run of main
AfterRun == runs >= 1 /\ rewrites = 0

\* C1: running main twice in a row with the same source leaves the target after the
\* second run identical to the target after the first run, and the second run
\* reports a count delta of zero.
CE_C1 == (runs >= 2 /\ rewrites = 0) => (target = prevTarget /\ delta = 0)

CE_C3 == rewrites >= 1 => target = prevTarget

\* C4: after a run, every section of the target holds exactly the comment lines it
\* held before the run, in the same order, and a section the run created holds none.
CE_C4 ==
    AfterRun =>
        \A k \in Keys(before) \cup Keys(parse_target(target)) :
            CommentsOf(parse_target(target), k) = CommentsOf(before, k)

\* C5: when loading the substitution map fails during a run, write_data is never
\* called and the target file is left as it was.
CE_C5 ==
    (runs >= 1 /\ source.readable /\ source.lines # <<>> /\ load_subs_raises(subs))
        => (writes = 0 /\ target = prevTarget)

\* C6: with an unreadable source the run completes with no new entry and rewrites
\* the target, and every section of the rewritten target holds the same set of
\* items and the same comments in the same order as the section parsed before the
\* run; the merged section, when the target did not have it, is added empty.
T_C6 ==
    (AfterRun /\ ~source.readable) =>
        LET after == parse_target(target)
        IN  /\ NewEntries = {}
            /\ writes = runs
            /\ Keys(after) = Keys(before) \cup {section}
            /\ \A k \in Keys(after) :
                   /\ set(ItemsOf(after, k)) = set(ItemsOf(before, k))
                   /\ CommentsOf(after, k) = CommentsOf(before, k)

\* a run with an unreadable source over a target with a section that has both a
\* comment and an item
W_C6 ==
    /\ AfterRun
    /\ ~source.readable
    /\ \E k \in Keys(before) : ItemsOf(before, k) # <<>> /\ CommentsOf(before, k) # <<>>

\* C7: after the merge the named section's items are the ascending, duplicate-free
\* sequence of the items it had before (none if it was absent) united with the new
\* entries; every item it had before is still there.
T_C7 ==
    AfterRun =>
        LET old == set(ItemsOf(before, section))
            it  == ItemsOf(data, section)
        IN  /\ StrictlyAscending(it)
            /\ set(it) = old \cup NewEntries
            /\ old \subseteq set(it)

\* a run has merged an entry the section did not have into a section with items
W_C7 ==
    /\ AfterRun
    /\ ItemsOf(before, section) # <<>>
    /\ NewEntries \ set(ItemsOf(before, section)) # {}

\* C8: the number a run reports as added is the number of distinct new entries
\* that were not items of the section before the merge.
CE_C8 ==
    AfterRun => delta = Cardinality(NewEntries \ set(ItemsOf(before, section)))

\* the normal form C9 describes: cut before the first space, trim, then every
\* substitution in map order, each on the outcome of the one before
FirstSpace(l) == CHOOSE i \in DOMAIN l : l[i] = " " /\ \A j \in 1..(i - 1) : l[j] # " "

Truncated(l) == IF contains(l, " ") THEN SubSeq(l, 1, FirstSpace(l) - 1) ELSE l

Trimmed(l) ==
    LET keep == {i \in DOMAIN l : l[i] \notin Whitespace}
    IN  IF keep = {} THEN <<>>
        ELSE SubSeq(l, CHOOSE i \in keep : \A j \in keep : i <= j,
                       CHOOSE i \in keep : \A j \in keep : i >= j)

Substituted(l, items) ==
    LET f[i \in 0..Len(items)] ==
            IF i = 0 THEN l ELSE replace(f[i - 1], items[i][1], items[i][2])
    IN  f[Len(items)]

EXAMPLE_COM == <<"e", "x", "a", "m", "p", "l", "e", ".", "c", "o", "m">>

\* C9: parse_line returns the raw line cut before its first space, then trimmed,
\* then with every substitution applied in map order, each to the outcome of the
\* one before; "example.com   # spam source" with no substitution gives
\* "example.com".
T_C9 ==
    \A i \in DOMAIN entries :
        LET raw == readlines(source.lines)[i]
        IN  /\ entries[i] = Substituted(Trimmed(Truncated(raw)), subs.map)
            /\ (startswith(raw, EXAMPLE_COM \o <<" ">>) /\ subs.map = <<>>)
                   => entries[i] = EXAMPLE_COM

\* a line with an annotation after a space has been normalized under a map of two
\* substitutions, the second of which acts on the outcome of the first
W_C9 ==
    \E i \in DOMAIN entries :
        LET raw == readlines(source.lines)[i]
            cut == Trimmed(Truncated(raw))
        IN  /\ contains(source.lines[i], " ")
            /\ Len(subs.map) = 2
            /\ replace(cut, subs.map[1][1], subs.map[1][2]) # cut
            /\ entries[i] # replace(cut, subs.map[1][1], subs.map[1][2])

\* the stripped i-th line of the target
LineAt(i) == strip(readlines(target)[i])

\* the last start header or end marker among the first i lines; 0 if none
LastMark(i) ==
    LET marks == {j \in 1..i : IsStart(LineAt(j)) \/ IsEnd(LineAt(j))}
    IN  IF marks = {} THEN 0 ELSE CHOOSE j \in marks : \A k \in marks : k <= j

\* a section is open after the first i lines: the last marker is a start header
OpenAfter(i) == LastMark(i) > 0 /\ IsStart(LineAt(LastMark(i)))

\* the name extracted from the start header that opened it
OpenName(i) == split(LineAt(LastMark(i)), " ")[2]

\* C10: a start header opens a section, whatever name is extracted from it, until
\* the next end marker or start header; every non-blank line scanned while a
\* section is open that is neither is appended, trimmed, to exactly one list of the
\* open section, its comments if it starts with '#' and its items otherwise; a
\* line scanned while no section is open is added to no section.
CE_C10 ==
    [][(idx' = idx + 1) =>
          LET line == LineAt(idx')
          IN  (line # <<>> /\ ~IsStart(line) /\ ~IsEnd(line)) =>
                  IF OpenAfter(idx)
                  THEN LET n == OpenName(idx)
                       IN  /\ HasKey(result, n)
                           /\ Keys(result') = Keys(result)
                           /\ \A k \in Keys(result) \ {n} : Get(result', k) = Get(result, k)
                           /\ IF startswith(line, <<"#">>)
                              THEN /\ CommentsOf(result', n) = Append(CommentsOf(result, n), line)
                                   /\ ItemsOf(result', n) = ItemsOf(result, n)
                              ELSE /\ ItemsOf(result', n) = Append(ItemsOf(result, n), line)
                                   /\ CommentsOf(result', n) = CommentsOf(result, n)
                  ELSE result' = result]_vars

====
